---- MODULE Spec2Model ----
(***************************************************************************)
(* A model of src/src/s2/s2testing.h: the nearest-result verifier          *)
(* CheckDistanceResults / S2::internal::CheckResultSet, and the level      *)
(* configuration and recursive subdivision of S2Testing::Fractal.          *)
(*                                                                         *)
(* An S1Angle is modelled as an integer number of units of 1e-15 radians,  *)
(* the value of kMaxPruningError, so that limit arithmetic is exact.       *)
(* A result is a pair <<distance, id>>.                                    *)
(***************************************************************************)
EXTENDS Integers, Sequences, FiniteSets

VARIABLES expected, actual, max_size, max_distance, max_error,
          pc, evaluated, result, limit, out, failures, backRead, ret,
          max_level_, min_level_arg_, min_level_, userMin, fpc, stack,
          vertices

verifierVars == <<expected, actual, max_size, max_distance, max_error,
                  pc, evaluated, result, limit, out, failures, backRead, ret>>
fractalVars == <<max_level_, min_level_arg_, min_level_, userMin, fpc, stack,
                 vertices>>
vars == <<verifierVars, fractalVars>>

-----------------------------------------------------------------------------
(* Bounds of the model.                                                    *)

\* longest expected / actual sequence
MaxLen == 2
\* the distance of the farther results, in units of 1e-15 rad
MaxDist == 2
\* the nonzero max_error, in units of 1e-15 rad
MaxErr == 1
\* largest max_level of a fractal
MaxLevel == 2
\* largest max_level of a fractal whose edges may stop at several levels
MaxMultiLevel == 1

Ids == {"a", "b"}
\* results lie at distance zero or at distance MaxDist
Distances == {0, MaxDist}
Pairs == Distances \X Ids
\* the distance limits: below, between, at and above the distances
MaxDistances == {0, 1, MaxDist, MaxDist + 1}
MaxErrors == {0, MaxErr}
Results == UNION {[1..n -> Pairs] : n \in 0..MaxLen}
Labels == {"Missing", "Extra"}

-----------------------------------------------------------------------------
(* S2::internal::CheckResultSet                                            *)

\* S1Angle::Radians(1e-15), the unit of the model
kMaxPruningError == 1

\* S1Angle::Zero()
Zero == 0

ToSet(x) == {x[i] : i \in DOMAIN x}

\* CompareFirst with <= in place of <: equal distances count as out of order
IsSortedStrict(x) == \A i \in 1..(Len(x) - 1) : x[i][1] < x[i + 1][1]

\* std::is_sorted(x.begin(), x.end(), cmp) with cmp = CompareFirst: no element
\* is followed by one of strictly smaller distance
IsSorted(x) == \A i \in 1..(Len(x) - 1) : ~(x[i + 1][1] < x[i][1])

\* a set keyed by the distance alone
NoDuplicatesByFirst(x) == Cardinality({x[i][1] : i \in DOMAIN x}) = Len(x)

\* x_set.size() == x.size(), x_set a std::set of the pairs of x
NoDuplicates(x) == Cardinality(ToSet(x)) = Len(x)

\* a signed comparison
SizeLessSigned(n, m) == n < m

\* x.size() < max_size: size_t against int, so max_size is converted to
\* size_t and a negative max_size becomes 2^64 + max_size, above any size
SizeLess(n, m) == IF m < 0 THEN TRUE ELSE n < m

\* the size cap ignored
LimitNoCap(x, ms, md, me, mpe) == md - mpe

\* an empty x treated as not capped
LimitEmptyUncapped(x, ms, md, me, mpe) ==
    IF SizeLess(Len(x), ms) \/ x = <<>> THEN md - mpe
    ELSE x[Len(x)][1] - me - mpe

\* the limit computed at lines 341-352
Limit(x, ms, md, me, mpe) ==
    IF SizeLess(Len(x), ms) THEN md - mpe
    ELSE IF x # <<>> THEN x[Len(x)][1] - me - mpe
    ELSE Zero

\* whether x.back() is evaluated at line 351
ReadsBack(x, ms) == ~SizeLess(Len(x), ms) /\ x # <<>>

BelowLimitInclusive(d, lim) == d <= lim

\* p.first < limit
BelowLimit(d, lim) == d < lim

\* elements of equal distance counted
CountByFirst(x, p) == Cardinality({i \in DOMAIN x : x[i][1] = p[1]})

\* std::count(x.begin(), x.end(), p)
Count(x, p) == Cardinality({i \in DOMAIN x : x[i] = p})

RECURSIVE CheckLoop(_, _, _, _, _, _)
\* the loop of lines 353-360 from element i of y on; acc = [result, out]
CheckLoop(x, y, lim, label, i, acc) ==
    IF i > Len(y) THEN acc
    ELSE LET p == y[i]
             bad == BelowLimit(p[1], lim) /\ Count(x, p) # 1
         IN CheckLoop(x, y, lim, label, i + 1,
                [result |-> IF bad THEN FALSE ELSE acc.result,
                 out |-> IF bad THEN Append(acc.out, <<label, p[1], p[2]>>)
                         ELSE acc.out])

\* one call of CheckResultSet: the two EXPECTs (non-fatal failures recorded by
\* the test framework), the limit, the loop and the returned value
CheckResultSet(x, y, ms, md, me, mpe, label) ==
    LET lim == Limit(x, ms, md, me, mpe)
        run == CheckLoop(x, y, lim, label, 1, [result |-> TRUE, out |-> <<>>])
    IN [result |-> run.result,
        limit |-> lim,
        out |-> run.out,
        failures |-> (IF IsSorted(x) THEN {} ELSE {<<label, "unsorted">>})
                     \cup (IF NoDuplicates(x) THEN {}
                           ELSE {<<label, "duplicates">>}),
        back |-> ReadsBack(x, ms)]

-----------------------------------------------------------------------------
(* CheckDistanceResults                                                    *)

CombineOr(a, b) == a \/ b

\* the operator & of line 375 on two bools
Combine(a, b) == a /\ b

ShortCircuit(first) == first

\* with & (not &&) the other operand is evaluated whatever the first returned
OtherOperandEvaluated(first) == TRUE

\* the arguments of the two calls, lines 373-378
CallArgs(label) ==
    IF label = "Missing"
    THEN [x |-> actual, y |-> expected, mpe |-> kMaxPruningError]
    ELSE [x |-> expected, y |-> actual, mpe |-> Zero]

\* One operand of & is evaluated.  The two calls are indeterminately
\* sequenced: either may run first, and they do not interleave.
Call(label) ==
    /\ pc = "calls"
    /\ label \notin evaluated
    /\ LET a == CallArgs(label)
           r == CheckResultSet(a.x, a.y, max_size, max_distance, max_error,
                               a.mpe, label)
           runs == \A l \in evaluated : OtherOperandEvaluated(result[l])
       IN /\ evaluated' = evaluated \cup {label}
          /\ result' = IF runs THEN [result EXCEPT ![label] = r.result]
                       ELSE result
          /\ limit' = IF runs THEN [limit EXCEPT ![label] = r.limit] ELSE limit
          /\ out' = IF runs THEN out \o r.out ELSE out
          /\ failures' = IF runs THEN failures \cup r.failures ELSE failures
          /\ backRead' = IF runs /\ r.back THEN backRead \cup {label}
                         ELSE backRead
    /\ UNCHANGED <<expected, actual, max_size, max_distance, max_error, pc, ret>>
    /\ UNCHANGED fractalVars

CallMissing == Call("Missing")

CallExtra == Call("Extra")

\* the return of line 373
Return ==
    /\ pc = "calls"
    /\ evaluated = Labels
    /\ pc' = "done"
    /\ ret' = Combine(result["Missing"], result["Extra"])
    /\ UNCHANGED <<expected, actual, max_size, max_distance, max_error,
                   evaluated, result, limit, out, failures, backRead>>
    /\ UNCHANGED fractalVars

\* the state of a Fractal after its constructor, no generation running
FractalIdle ==
    /\ max_level_ = -1
    /\ min_level_arg_ = -1
    /\ min_level_ = -1
    /\ userMin = -1
    /\ fpc = "config"
    /\ stack = <<>>
    /\ vertices = <<>>

\* a call of CheckDistanceResults with any arguments within the bounds
Init ==
    /\ expected \in Results
    /\ actual \in Results
    /\ max_size \in -1..(MaxLen + 1)
    /\ max_distance \in MaxDistances
    /\ max_error \in MaxErrors
    /\ pc = "calls"
    /\ evaluated = {}
    /\ result = [l \in Labels |-> TRUE]
    /\ limit = [l \in Labels |-> Zero]
    /\ out = <<>>
    /\ failures = {}
    /\ backRead = {}
    /\ ret = TRUE
    /\ FractalIdle

Next == CallMissing \/ CallExtra \/ Return

Spec == Init /\ [][Next]_vars

-----------------------------------------------------------------------------
(* S2Testing::Fractal: the level configuration and the subdivision.  Only  *)
(* the class declaration is in the header; the bodies of the setters, of   *)
(* ComputeMinLevel and of GetR2VerticesHelper follow the specification.    *)
(* A vertex is the start v0 of a sub-edge, named by the original edge e,   *)
(* its position pos along that edge in units of 4^-MaxLevel of the edge,   *)
(* and the level at which the sub-edge stopped.                            *)

RECURSIVE Pow4(_)
Pow4(n) == IF n <= 0 THEN 1 ELSE 4 * Pow4(n - 1)

\* int max_level() const { return max_level_; }
max_level == max_level_

\* the getter returns the derived level instead of the user's value
min_level_derived == min_level_

\* int min_level() const { return min_level_arg_; }
min_level == min_level_arg_

\* the fallback is level 0 instead of max_level
MinLevelFallbackZero(arg, max) == IF arg >= 0 /\ arg < max THEN arg ELSE 0

\* ComputeMinLevel: the user's value when it is a level of the fractal,
\* max_level otherwise (the default -1 makes the two levels the same)
ComputeMinLevel(arg, max) == IF arg >= 0 /\ arg <= max THEN arg ELSE max

\* set_max_level(n), REQUIRES n >= 0
set_max_level(n) ==
    /\ fpc = "config"
    /\ max_level_' = n
    /\ min_level_' = ComputeMinLevel(min_level_arg_, n)
    /\ UNCHANGED <<min_level_arg_, userMin, fpc, stack, vertices>>
    /\ UNCHANGED verifierVars

\* set_min_level(m)
set_min_level(m) ==
    /\ fpc = "config"
    /\ min_level_arg_' = m
    /\ userMin' = m
    /\ min_level_' = ComputeMinLevel(m, max_level_)
    /\ UNCHANGED <<max_level_, fpc, stack, vertices>>
    /\ UNCHANGED verifierVars

SetMaxLevel == \E n \in 0..MaxLevel : set_max_level(n)

SetMinLevel == \E m \in -1..(MaxLevel + 1) : set_min_level(m)

\* the sub-edge of edge e that starts at pos, at a level
Edge(e, pos, level) == [e |-> e, pos |-> pos, level |-> level]

\* GetR2Vertices: the helper is run on the three edges of the triangle, in
\* order.  A fractal whose edges may stop at several levels is generated
\* only up to MaxMultiLevel.
GetR2Vertices ==
    /\ fpc = "config"
    /\ max_level_ >= 0
    /\ min_level_ = max_level_ \/ max_level_ <= MaxMultiLevel
    /\ fpc' = "run"
    /\ stack' = <<Edge(0, 0, 0), Edge(1, 0, 0), Edge(2, 0, 0)>>
    /\ vertices' = <<>>
    /\ UNCHANGED <<max_level_, min_level_arg_, min_level_, userMin>>
    /\ UNCHANGED verifierVars

\* the stopping rule of GetR2VerticesHelper
Stops(level, coin) ==
    level >= max_level_ \/ (level >= min_level_ /\ coin)

\* the four sub-edges of an edge, in the direction of the edge
SubEdges(s) ==
    LET step == Pow4(MaxLevel - s.level - 1)
    IN [i \in 1..4 |-> Edge(s.e, s.pos + (i - 1) * step, s.level + 1)]

\* GetR2VerticesHelper on the next pending edge: it stops and appends v0
HelperStop ==
    /\ fpc = "run"
    /\ stack # <<>>
    /\ \E coin \in BOOLEAN :
          /\ Stops(Head(stack).level, coin)
          /\ vertices' = Append(vertices, Head(stack))
          /\ stack' = Tail(stack)
    /\ UNCHANGED <<max_level_, min_level_arg_, min_level_, userMin, fpc>>
    /\ UNCHANGED verifierVars

\* GetR2VerticesHelper on the next pending edge: it recurses into the four
\* sub-edges at level + 1, in order
HelperSubdivide ==
    /\ fpc = "run"
    /\ stack # <<>>
    /\ \E coin \in BOOLEAN :
          /\ ~Stops(Head(stack).level, coin)
          /\ stack' = SubEdges(Head(stack)) \o Tail(stack)
    /\ UNCHANGED <<max_level_, min_level_arg_, min_level_, userMin, fpc,
                   vertices>>
    /\ UNCHANGED verifierVars

\* GetR2Vertices returns
GenerationDone ==
    /\ fpc = "run"
    /\ stack = <<>>
    /\ fpc' = "done"
    /\ UNCHANGED <<max_level_, min_level_arg_, min_level_, userMin, stack,
                   vertices>>
    /\ UNCHANGED verifierVars

\* no call of CheckDistanceResults is running
VerifierIdle ==
    /\ expected = <<>>
    /\ actual = <<>>
    /\ max_size = 0
    /\ max_distance = Zero
    /\ max_error = Zero
    /\ pc = "idle"
    /\ evaluated = {}
    /\ result = [l \in Labels |-> TRUE]
    /\ limit = [l \in Labels |-> Zero]
    /\ out = <<>>
    /\ failures = {}
    /\ backRead = {}
    /\ ret = TRUE

InitFractal == VerifierIdle /\ FractalIdle

NextFractal ==
    \/ SetMaxLevel
    \/ SetMinLevel
    \/ GetR2Vertices
    \/ HelperStop
    \/ HelperSubdivide
    \/ GenerationDone

SpecFractal == InitFractal /\ [][NextFractal]_vars

-----------------------------------------------------------------------------
(* The properties.  They are stated over the sequences themselves, not     *)
(* through the operators above.                                            *)

HasDuplicate(x) == \E i, j \in DOMAIN x : i < j /\ x[i] = x[j]

Ascending(x) == \A i, j \in DOMAIN x : i < j => x[i][1] <= x[j][1]

OccursOnce(x, p) ==
    \E i \in DOMAIN x : x[i] = p /\ \A j \in DOMAIN x : x[j] = p => j = i

\* every pair of y strictly below lim occurs in x exactly once
Covered(x, y, lim) ==
    \A i \in DOMAIN y : y[i][1] < lim => OccursOnce(x, y[i])

\* the coverage limit as the specification words it
StatedLimit(x, mpe) ==
    IF Len(x) < max_size THEN max_distance - mpe
    ELSE x[Len(x)][1] - max_error - mpe

\* the coverage limit with the two cases the wording leaves out
CoverageLimit(x, mpe) ==
    IF max_size < 0 \/ Len(x) < max_size THEN max_distance - mpe
    ELSE IF x = <<>> THEN 0
    ELSE x[Len(x)][1] - max_error - mpe

Passes(x, y, mpe) == Covered(x, y, CoverageLimit(x, mpe))

\* the diagnostic lines of a direction: one per pair of y, in the order of
\* y, that lies below the limit and does not occur in x exactly once
Lines(x, y, mpe, label) ==
    LET Offends(p) == p[1] < CoverageLimit(x, mpe) /\ ~OccursOnce(x, p)
        off == SelectSeq(y, Offends)
    IN [i \in 1..Len(off) |-> <<label, off[i][1], off[i][2]>>]

\* 1e-15 rad is 1 in the unit of the model
MissingLines == Lines(actual, expected, 1, "Missing")

ExtraLines == Lines(expected, actual, 0, "Extra")

\* C1, as stated: a direction passes iff every pair of y strictly below L
\* occurs in x exactly once, L = max_distance - max_pruning_error when
\* |x| < max_size and L = x.back().distance - max_error - max_pruning_error
\* otherwise (read where x has a last element or |x| < max_size).
C1_AsStated ==
    \A l \in evaluated :
        LET a == CallArgs(l)
        IN (a.x # <<>> \/ Len(a.x) < max_size) =>
              (result[l] <=> Covered(a.x, a.y, StatedLimit(a.x, a.mpe)))

\* C1, amended: a direction passes iff every pair of y strictly below L occurs
\* in x exactly once, where L = max_distance - max_pruning_error when
\* max_size is negative or |x| < max_size, L = 0 when x is empty and
\* max_size = 0, and L = x.back().distance - max_error - max_pruning_error
\* otherwise; pairs of y at distance >= L are never required.
C1_DirectionPasses ==
    \A l \in evaluated :
        LET a == CallArgs(l)
        IN /\ limit[l] = CoverageLimit(a.x, a.mpe)
           /\ result[l] <=> Covered(a.x, a.y, limit[l])

\* a size-capped direction passed although a pair of y at or beyond the limit
\* is absent from x, while a pair of y below the limit was required
C1_Witness ==
    \E l \in evaluated :
        LET a == CallArgs(l)
        IN /\ a.x # <<>> /\ max_size >= 0 /\ Len(a.x) >= max_size
           /\ result[l]
           /\ \E i \in DOMAIN a.y : a.y[i][1] >= limit[l] /\ a.y[i] \notin ToSet(a.x)
           /\ \E i \in DOMAIN a.y : a.y[i][1] < limit[l]

\* C2: CheckDistanceResults returns true iff both directions pass, Missing
\* (x = actual, y = expected) with the pruning tolerance of 1e-15 rad and
\* Extra (x = expected, y = actual) with tolerance zero; every call runs to
\* its return, a mismatch being the value false.
C2_ReturnsConjunction ==
    /\ (pc = "calls" /\ evaluated = Labels) => ENABLED Return
    /\ pc = "done" =>
          /\ ret \in BOOLEAN
          /\ ret <=> (Passes(actual, expected, 1) /\ Passes(expected, actual, 0))

\* a call returned false with one direction passing and the other failing
C2_Witness ==
    /\ pc = "done"
    /\ ~ret
    /\ Passes(actual, expected, 1)
    /\ ~Passes(expected, actual, 0)

\* C3, as stated: whenever actual contains a duplicate pair the call returns
\* false (taken here for a size bound max_size >= 1 only).
C3_AsStated == (pc = "done" /\ max_size >= 1 /\ HasDuplicate(actual)) => ~ret

\* C3, amended: whenever actual contains a duplicate pair (and only then) the
\* Missing direction records the non-fatal failure "Result set contains
\* duplicates"; the call returns false when a duplicated pair also occurs in
\* expected strictly below the Missing direction's limit, and the duplicate
\* does not otherwise change the returned value.
C3_DuplicateRecorded ==
    pc = "done" =>
        /\ <<"Missing", "duplicates">> \in failures <=> HasDuplicate(actual)
        /\ (\E i, j \in DOMAIN actual, k \in DOMAIN expected :
                /\ i < j /\ actual[i] = actual[j] /\ expected[k] = actual[i]
                /\ expected[k][1] < limit["Missing"]) => ~ret

\* actual holds a duplicate, the failure is recorded and the call returned true
C3_Witness ==
    /\ pc = "done"
    /\ HasDuplicate(actual)
    /\ <<"Missing", "duplicates">> \in failures
    /\ ret

CorrectlyTruncated ==
    /\ Ascending(expected)
    /\ ~HasDuplicate(expected)
    /\ max_size >= 1
    /\ max_error >= 0
    /\ actual = SubSeq(expected, 1,
                       IF max_size < Len(expected) THEN max_size
                       ELSE Len(expected))
    /\ Len(expected) < max_size =>
          \A i \in DOMAIN expected : expected[i][1] < max_distance

\* C5: a correctly truncated result is accepted; the expected pairs beyond
\* the size cap are not required.
C5_TruncatedAccepted == (pc = "done" /\ CorrectlyTruncated) => ret

\* a truncated actual, shorter than expected, was accepted
C5_Witness ==
    /\ pc = "done"
    /\ CorrectlyTruncated
    /\ Len(actual) < Len(expected)
    /\ ret

\* C8, as stated: the diagnostics are one line per offending pair, all the
\* Missing lines before all the Extra lines (taken here for a size bound
\* max_size >= 1 only).
C8_AsStated ==
    (pc = "done" /\ max_size >= 1) => out = MissingLines \o ExtraLines

\* C8, amended: both directions are always evaluated in full: the
\* diagnostics are exactly one line per offending pair of the reference
\* sequence of each direction, in the order of that sequence, the lines of a
\* direction together; the two operands of & are not sequenced, so the
\* Missing lines come before or after the Extra lines, and the lines of
\* either direction are emitted also when the other direction fails.
C8_BothDirectionsReported ==
    pc = "done" =>
        /\ evaluated = Labels
        /\ \/ out = MissingLines \o ExtraLines
           \/ out = ExtraLines \o MissingLines

\* both directions failed and the lines of both were emitted
C8_Witness ==
    /\ pc = "done"
    /\ MissingLines # <<>>
    /\ ExtraLines # <<>>
    /\ Len(out) = Len(MissingLines) + Len(ExtraLines)

\* C9: a sequence without duplicate pairs, checked against itself, is
\* accepted whatever max_size, max_distance and max_error are.
C9_Reflexive ==
    (pc = "done" /\ expected = actual /\ ~HasDuplicate(actual)) => ret

\* r longer than a non-negative max_size and reaching beyond max_distance
C9_Witness ==
    /\ pc = "done"
    /\ expected = actual
    /\ ~HasDuplicate(actual)
    /\ max_size >= 0
    /\ Len(actual) > max_size
    /\ \E i \in DOMAIN actual : actual[i][1] > max_distance
    /\ ret

\* C10: when x is empty and max_size = 0 the limit is zero and x.back() is
\* not read (it is read of no empty x at all); CheckDistanceResults(expected,
\* [], 0, ...) returns true when no distance of expected is negative.
C10_EmptyCapped ==
    /\ \A l \in evaluated :
          /\ (CallArgs(l).x = <<>> /\ max_size = 0) =>
                (limit[l] = 0 /\ l \notin backRead)
          /\ l \in backRead => CallArgs(l).x # <<>>
    /\ (/\ pc = "done"
        /\ actual = <<>>
        /\ max_size = 0
        /\ \A i \in DOMAIN expected : expected[i][1] >= 0) => ret

\* a non-empty expected below max_distance is accepted with an empty actual
C10_Witness ==
    /\ pc = "done"
    /\ actual = <<>>
    /\ max_size = 0
    /\ expected # <<>>
    /\ \A i \in DOMAIN expected : expected[i][1] + 1 < max_distance
    /\ "Missing" \notin backRead
    /\ ret

\* C6: with max_level = min_level = L every edge stops at exactly level L,
\* the vertex sequence has exactly 3 * 4^L vertices, and the vertices follow
\* the direction of the three original edges.
C6_SingleLevel ==
    (fpc = "done" /\ min_level_arg_ = max_level_) =>
        /\ Len(vertices) = 3 * Pow4(max_level_)
        /\ \A i \in DOMAIN vertices : vertices[i].level = max_level_
        /\ \A i, j \in DOMAIN vertices :
              i < j => \/ vertices[i].e < vertices[j].e
                       \/ /\ vertices[i].e = vertices[j].e
                          /\ vertices[i].pos < vertices[j].pos

\* a fractal of max_level = min_level >= 1 was generated
C6_Witness ==
    /\ fpc = "done"
    /\ min_level_arg_ = max_level_
    /\ max_level_ >= 1
    /\ Len(vertices) = 3 * Pow4(max_level_)

\* C7: after any setter calls the actual minimum level is at most max_level,
\* it equals max_level when the user's min_level is -1, and min_level()
\* returns the value the user set.
C7_MinLevel ==
    /\ min_level_ <= max_level_
    /\ userMin = -1 => min_level_ = max_level_
    /\ min_level = userMin

\* the user's min_level lies above max_level and is clamped
C7_Witness ==
    /\ max_level_ >= 0
    /\ userMin > max_level_
    /\ min_level_ = max_level_
    /\ min_level = userMin

====
